---- MODULE Spec2Model ----
(***************************************************************************)
(* PhysicsInformedNN (src/PINN_torch.py): the parameter store, the         *)
(* prediction router (forward), the loss assembler (loss_func), the manual *)
(* gradient attachment (customized_backward) and the two training drivers  *)
(* (train_LBFGS with its closure, and the first-order train).              *)
(*                                                                         *)
(* Tensors are modelled as terms: a prediction records which evaluator     *)
(* produced it, on which point-set, with which parameter versions; a loss  *)
(* records its weighted per-role residual terms; a gradient records the    *)
(* loss it differentiates and the parameter it is taken against.  A        *)
(* parameter's "ver" counts the in-place updates the optimizer applied.    *)
(***************************************************************************)
EXTENDS Integers, Sequences, FiniteSets, TLC

VARIABLES layers, weights, biases, preds, pred_dict, loss, loss_list,
          pc, mode, opt, loc, stop, runs, ncalls, iters_done, ret

vars == <<layers, weights, biases, preds, pred_dict, loss, loss_list,
          pc, mode, opt, loc, stop, runs, ncalls, iters_done, ret>>

-----------------------------------------------------------------------------
(* Bounds of the model *)
MaxLayers == 3
MaxWidth == 2
MaxIter == 4
MaxEpoch == 2
MaxRuns == 1

(* Program constants *)
InputDim == 2
OutputDim == 1
DefaultWeight == 1

Roles == {"u", "diri", "nuem", "f"}
Keys == Roles \cup {"other"}
TrainKeys == {"diri", "nuem", "f"}
TrainDictKeys == {"u", "f", "nuem", "diri"}

RECURSIVE SeqsOfLen(_, _)
SeqsOfLen(S, n) ==
  IF n = 0 THEN {<<>>}
  ELSE {Append(s, x) : s \in SeqsOfLen(S, n - 1), x \in S}

(* every layer-size sequence of length 2..MaxLayers *)
LayerSeqs == UNION {SeqsOfLen(1..MaxWidth, n) : n \in 2..MaxLayers}
(* the ones the model is built from: neural_net feeds cat((x,y),1) into the *)
(* first layer, and the network's output is one column                     *)
ValidLayerSeqs == {ls \in LayerSeqs : ls[1] = InputDim /\ ls[Len(ls)] = OutputDim}

-----------------------------------------------------------------------------
(* Terms *)
NoGrad == [kind |-> "none", wrt |-> <<"-", 0>>, loss |-> <<>>]
ZeroGrad == [kind |-> "zero", wrt |-> <<"-", 0>>, loss |-> <<>>]
NoPred == [fn |-> "None", pts |-> <<"-", "-">>, W |-> <<>>]
NoLocals == [dataset |-> "-", x_keys |-> {}, true_keys |-> {},
             pred |-> <<>>, loss |-> <<>>, i |-> 0, epoch |-> 0]
NoOpt == [max_iter |-> 0, max_eval |-> 0, n_iter |-> 0, current_evals |-> 0,
          phase |-> "-", steps |-> 0]
NoRet == [op |-> "none", supplied |-> {}, keys |-> [given |-> FALSE, set |-> {}],
          truth |-> {}, wts |-> [given |-> FALSE, map |-> <<>>],
          res |-> [ok |-> TRUE, err |-> "", val |-> <<>>]]

Ok(v) == [ok |-> TRUE, err |-> "", val |-> v]
Err(e) == [ok |-> FALSE, err |-> e, val |-> <<>>]

xavier_init(size) ==
  [shape |-> <<size[1], size[2]>>, init |-> "xavier_normal", ver |-> 0, grad |-> NoGrad]

zeros_bias(size) ==
  [shape |-> <<size[1], size[2]>>, init |-> "zeros", ver |-> 0, grad |-> NoGrad]

(* variant: the bias is sized by the layer's inputs, zeros([1, layers[l]]) *)
RECURSIVE initialize_loop_bias_in(_, _, _, _)
initialize_loop_bias_in(lys, l, ws, bs) ==
  IF l > Len(lys) - 1 THEN <<ws, bs>>
  ELSE initialize_loop_bias_in(lys, l + 1,
                               Append(ws, xavier_init(<<lys[l], lys[l + 1]>>)),
                               Append(bs, zeros_bias(<<1, lys[l]>>)))

initialize_NN_bias_in(lys) == initialize_loop_bias_in(lys, 1, <<>>, <<>>)

RECURSIVE initialize_loop(_, _, _, _)
initialize_loop(lys, l, ws, bs) ==
  IF l > Len(lys) - 1 THEN <<ws, bs>>
  ELSE initialize_loop(lys, l + 1,
                       Append(ws, xavier_init(<<lys[l], lys[l + 1]>>)),
                       Append(bs, zeros_bias(<<1, lys[l + 1]>>)))

initialize_NN(lys) == initialize_loop(lys, 1, <<>>, <<>>)

Params == weights \o biases
Snapshot(ws, bs) == [p \in 1..(Len(ws) + Len(bs)) |-> (ws \o bs)[p].ver]

-----------------------------------------------------------------------------
(* Forward evaluator.  pts names the point-set: <<dataset, role>>. *)
neural_net(pts, ws, bs) ==
  [fn |-> "u", pts |-> pts, W |-> Snapshot(ws, bs),
   tanh_layers |-> (Len(ws) + 1) - 2, out |-> ws[Len(ws)].shape[2]]

net_u(pts) == neural_net(pts, weights, biases)

net_du(pts) ==
  LET u == neural_net(pts, weights, biases)
  IN <<[u EXCEPT !.fn = "du_dx"], [u EXCEPT !.fn = "du_dy"]>>

net_f(pts) ==
  LET d == net_du(pts)
      u_yy == [d[2] EXCEPT !.fn = "d2u_dy2"]
      u_xx == [d[1] EXCEPT !.fn = "d2u_dx2"]
  IN [u_xx EXCEPT !.fn = u_yy.fn \o "+" \o u_xx.fn]

(* Prediction router.  x_tensors is the set of keys of the point-set       *)
(* mappings, keys is [given, set]: given = FALSE is keys=None.  The local  *)
(* preds is bound only in the else branch (lines 91-94).                   *)
(* variant: the Neumann role takes the second (y) component of net_du *)
dispatch_dudy(ds, i) ==
  IF i = "nuem" THEN net_du(<<ds, i>>)[2]
  ELSE IF i = "f" THEN net_f(<<ds, i>>)
  ELSE IF i = "u" THEN net_u(<<ds, i>>)
  ELSE IF i = "diri" THEN net_u(<<ds, i>>)
  ELSE NoPred

dispatch(ds, i) ==
  IF i = "nuem" THEN net_du(<<ds, i>>)[1]
  ELSE IF i = "f" THEN net_f(<<ds, i>>)
  ELSE IF i = "u" THEN net_u(<<ds, i>>)
  ELSE IF i = "diri" THEN net_u(<<ds, i>>)
  ELSE NoPred

forward(ds, x_tensors, keys) ==
  LET ks == IF keys.given THEN keys.set ELSE x_tensors
      preds_bound == keys.given
  IN IF \E i \in ks \cap Roles : i \notin x_tensors THEN Err("KeyError")
     ELSE IF ~preds_bound THEN Err("UnboundLocalError")
     ELSE Ok([i \in ks |-> dispatch(ds, i)])

(* Loss assembler.  pred and truth are functions on their key sets; wts is *)
(* [given, map]: given = FALSE is weights=None.                            *)
Target(ds, i) == [target |-> <<ds, i>>]

(* variant: the loop runs over the targets' keys *)
loss_func_truth_keys(pred, truth, wts) ==
  LET ks == DOMAIN truth
      w == IF wts.given THEN wts.map ELSE [i \in ks |-> DefaultWeight]
  IN IF \E i \in ks : i \notin DOMAIN pred THEN Err("KeyError")
     ELSE IF \E i \in ks : i \notin DOMAIN w THEN Err("KeyError")
     ELSE Ok([i \in ks |-> [w |-> w[i], pred |-> pred[i], truth |-> truth[i]]])

(* variant: a role without a weight falls back to the default, weights.get(i, 1.0) *)
loss_func_weight_default(pred, truth, wts) ==
  LET ks == DOMAIN pred
      w == [i \in ks |-> IF wts.given /\ i \in DOMAIN wts.map THEN wts.map[i]
                         ELSE DefaultWeight]
  IN IF \E i \in ks : i \notin DOMAIN truth THEN Err("KeyError")
     ELSE Ok([i \in ks |-> [w |-> w[i], pred |-> pred[i], truth |-> truth[i]]])

loss_func(pred, truth, wts) ==
  LET ks == DOMAIN pred
      w == IF wts.given THEN wts.map ELSE [i \in ks |-> DefaultWeight]
  IN IF \E i \in ks : i \notin DOMAIN truth THEN Err("KeyError")
     ELSE IF \E i \in ks : i \notin DOMAIN w THEN Err("KeyError")
     ELSE Ok([i \in ks |-> [w |-> w[i], pred |-> pred[i], truth |-> truth[i]]])

(* Manual gradient attachment: one grad call against params, the vid-th    *)
(* result assigned to the vid-th parameter's .grad.                        *)
ParamName(n, vid) == IF vid <= n THEN <<"W", vid>> ELSE <<"b", vid - n>>

grad(l, params, n) ==
  [vid \in 1..Len(params) |-> [kind |-> "grad", wrt |-> ParamName(n, vid), loss |-> l]]

(* variant: the gradients are attached in reverse order, params[-1 - vid] *)
customized_backward_reversed(l, params, n) ==
  LET grads == grad(l, params, n)
  IN [vid \in 1..Len(params) |->
        [params[vid] EXCEPT !.grad = grads[Len(params) + 1 - vid]]]

customized_backward(l, params, n) ==
  LET grads == grad(l, params, n)
  IN [vid \in 1..Len(params) |-> [params[vid] EXCEPT !.grad = grads[vid]]]

zero_grad(params) ==
  [vid \in 1..Len(params) |-> [params[vid] EXCEPT !.grad = ZeroGrad]]

(* the optimizer's in-place update of every parameter it holds *)
update(params) ==
  [vid \in 1..Len(params) |-> [params[vid] EXCEPT !.ver = @ + 1]]

(* variant: the history keeps only the latest loss, self.loss_list = [loss] *)
callback_overwrite(l) == <<l>>

callback(l) == Append(loss_list, l)

unzip_train_dict(ds, train_keys) ==
  [NoLocals EXCEPT !.dataset = ds, !.x_keys = train_keys, !.true_keys = train_keys]

TrueDict(l) == [i \in l.true_keys |-> Target(l.dataset, i)]
ExplicitKeys(S) == [given |-> TRUE, set |-> S]
NoneArg == [given |-> FALSE, set |-> {}]
NoWeights == [given |-> FALSE, map |-> <<>>]

-----------------------------------------------------------------------------
Init ==
  /\ layers \in ValidLayerSeqs
  /\ weights = initialize_NN(layers)[1]
  /\ biases = initialize_NN(layers)[2]
  /\ preds = "None"
  /\ pred_dict = <<>>
  /\ loss = <<>>
  /\ loss_list = <<>>
  /\ pc = "idle"
  /\ mode = "-"
  /\ opt = NoOpt
  /\ loc = NoLocals
  /\ stop = "none"
  /\ runs = 0
  /\ ncalls = 0
  /\ iters_done = 0
  /\ ret = NoRet

-----------------------------------------------------------------------------
(* Helpers shared by the actions *)
NW == Len(weights)

SetParams(ps) ==
  /\ weights' = SubSeq(ps, 1, NW)
  /\ biases' = SubSeq(ps, NW + 1, Len(ps))

ParamsUnchanged == UNCHANGED <<layers, weights, biases>>
ModelRest == UNCHANGED <<preds, pred_dict, loss>>
Idle == pc = "idle"

Finish(reason) ==
  /\ pc' = "idle"
  /\ stop' = reason
  /\ runs' = runs + 1

-----------------------------------------------------------------------------
(* Quasi-Newton mode: train_LBFGS, its closure, and LBFGS.step driving it. *)

(* lines 153-155 and the head of optimizer.step(closure), line 172 *)
TrainLBFGS(max_iter, max_eval) ==
  /\ Idle /\ runs < MaxRuns
  /\ mode' = "lbfgs"
  /\ loc' = unzip_train_dict("train_dict", TrainDictKeys)
  /\ opt' = [NoOpt EXCEPT !.max_iter = max_iter, !.max_eval = max_eval,
                          !.phase = "first"]
  /\ stop' = "none"
  /\ ncalls' = 0
  /\ pc' = "c_zero"
  /\ ParamsUnchanged /\ ModelRest
  /\ UNCHANGED <<loss_list, runs, iters_done, ret>>

(* line 159 *)
Closure_ZeroGrad ==
  /\ pc = "c_zero"
  /\ SetParams(zero_grad(Params))
  /\ ncalls' = ncalls + 1
  /\ pc' = "c_forward"
  /\ ModelRest
  /\ UNCHANGED <<layers, loss_list, mode, opt, loc, stop, runs, iters_done, ret>>

(* line 160 *)
Closure_Forward ==
  /\ pc = "c_forward"
  /\ LET r == forward(loc.dataset, loc.x_keys, ExplicitKeys(TrainKeys))
     IN IF r.ok
        THEN /\ loc' = [loc EXCEPT !.pred = r.val]
             /\ pc' = "c_loss"
             /\ UNCHANGED <<stop, runs>>
        ELSE /\ Finish(r.err)
             /\ UNCHANGED loc
  /\ ParamsUnchanged /\ ModelRest
  /\ UNCHANGED <<loss_list, mode, opt, ncalls, iters_done, ret>>

(* line 161 *)
Closure_Loss ==
  /\ pc = "c_loss"
  /\ LET r == loss_func(loc.pred, TrueDict(loc), NoWeights)
     IN IF r.ok
        THEN /\ loc' = [loc EXCEPT !.loss = r.val]
             /\ pc' = "c_callback"
             /\ UNCHANGED <<stop, runs>>
        ELSE /\ Finish(r.err)
             /\ UNCHANGED loc
  /\ ParamsUnchanged /\ ModelRest
  /\ UNCHANGED <<loss_list, mode, opt, ncalls, iters_done, ret>>

(* lines 163-165: log the loss (and print every 100th) *)
Closure_Callback ==
  /\ pc = "c_callback"
  /\ loss_list' = callback(loc.loss)
  /\ pc' = "c_backward"
  /\ ParamsUnchanged /\ ModelRest
  /\ UNCHANGED <<mode, opt, loc, stop, runs, ncalls, iters_done, ret>>

(* line 167 *)
Closure_Backward ==
  /\ pc = "c_backward"
  /\ SetParams(customized_backward(loc.loss, Params, NW))
  /\ pc' = "c_return"
  /\ ModelRest
  /\ UNCHANGED <<layers, loss_list, mode, opt, loc, stop, runs, ncalls, iters_done, ret>>

(* line 170: back in LBFGS.step, which counts the evaluation *)
Closure_Return ==
  /\ pc = "c_return"
  /\ opt' = [opt EXCEPT !.current_evals = @ + 1]
  /\ iters_done' = iters_done + 1
  /\ pc' = IF opt.phase = "first" THEN "o_first" ELSE "o_checks"
  /\ ParamsUnchanged /\ ModelRest
  /\ UNCHANGED <<loss_list, mode, loc, stop, runs, ncalls, ret>>

(* LBFGS.step after the first evaluation: optimal already, or enter the loop *)
LBFGS_FirstCheck ==
  /\ pc = "o_first"
  /\ \E opt_cond \in BOOLEAN :
       IF opt_cond
       THEN /\ stop' = "tolerance_grad"
            /\ pc' = "final_forward"
       ELSE /\ pc' = "o_loop"
            /\ UNCHANGED stop
  /\ ParamsUnchanged /\ ModelRest
  /\ UNCHANGED <<loss_list, mode, opt, loc, runs, ncalls, iters_done, ret>>

(* variant: the closure is re-evaluated in the last iteration too *)
LBFGS_Iterate_reevaluate_last ==
  /\ pc = "o_loop"
  /\ opt.n_iter < opt.max_iter
  /\ \E gtd_break \in BOOLEAN :
       IF gtd_break
       THEN /\ opt' = [opt EXCEPT !.n_iter = @ + 1]
            /\ stop' = "tolerance_change"
            /\ pc' = "final_forward"
            /\ ParamsUnchanged
       ELSE /\ opt' = [opt EXCEPT !.n_iter = @ + 1, !.phase = "loop"]
            /\ SetParams(update(Params))
            /\ pc' = "c_zero"
            /\ UNCHANGED <<stop, layers>>
  /\ ModelRest
  /\ UNCHANGED <<loss_list, mode, loc, runs, ncalls, iters_done, ret>>

(* LBFGS.step, one pass of "while n_iter < max_iter": the directional-     *)
(* derivative break, else the parameter update and, unless this is the     *)
(* last iteration, a re-evaluation through the closure                     *)
LBFGS_Iterate ==
  /\ pc = "o_loop"
  /\ opt.n_iter < opt.max_iter
  /\ \E gtd_break \in BOOLEAN :
       IF gtd_break
       THEN /\ opt' = [opt EXCEPT !.n_iter = @ + 1]
            /\ stop' = "tolerance_change"
            /\ pc' = "final_forward"
            /\ ParamsUnchanged
       ELSE /\ opt' = [opt EXCEPT !.n_iter = @ + 1, !.phase = "loop"]
            /\ SetParams(update(Params))
            /\ pc' = IF opt.n_iter + 1 # opt.max_iter THEN "c_zero" ELSE "o_checks"
            /\ UNCHANGED <<stop, layers>>
  /\ ModelRest
  /\ UNCHANGED <<loss_list, mode, loc, runs, ncalls, iters_done, ret>>

(* LBFGS.step, the checks closing an iteration *)
LBFGS_Checks ==
  /\ pc = "o_checks"
  /\ IF opt.n_iter = opt.max_iter
     THEN stop' = "max_iter" /\ pc' = "final_forward"
     ELSE IF opt.current_evals >= opt.max_eval
     THEN stop' = "max_eval" /\ pc' = "final_forward"
     ELSE \E c \in {"tolerance_grad", "tolerance_change", "continue"} :
            IF c = "continue"
            THEN pc' = "o_loop" /\ UNCHANGED stop
            ELSE stop' = c /\ pc' = "final_forward"
  /\ ParamsUnchanged /\ ModelRest
  /\ UNCHANGED <<loss_list, mode, opt, loc, runs, ncalls, iters_done, ret>>

(* variant: the closure's last bundle is stored instead of a fresh pass *)
LBFGS_FinalForward_stale ==
  /\ pc = "final_forward"
  /\ pred_dict' = loc.pred
  /\ pc' = "final_loss"
  /\ ParamsUnchanged
  /\ UNCHANGED <<preds, loss, loss_list, mode, opt, loc, stop, runs, ncalls, iters_done, ret>>

(* line 174 *)
LBFGS_FinalForward ==
  /\ pc = "final_forward"
  /\ LET r == forward(loc.dataset, loc.x_keys, ExplicitKeys(TrainKeys))
     IN IF r.ok
        THEN /\ pred_dict' = r.val
             /\ pc' = "final_loss"
             /\ UNCHANGED <<stop, runs>>
        ELSE /\ Finish(r.err)
             /\ UNCHANGED pred_dict
  /\ ParamsUnchanged
  /\ UNCHANGED <<preds, loss, loss_list, mode, opt, loc, ncalls, iters_done, ret>>

(* line 175 *)
LBFGS_FinalLoss ==
  /\ pc = "final_loss"
  /\ LET r == loss_func(pred_dict, TrueDict(loc), NoWeights)
     IN IF r.ok
        THEN loss' = r.val /\ Finish(stop)
        ELSE UNCHANGED loss /\ Finish(r.err)
  /\ ParamsUnchanged
  /\ UNCHANGED <<preds, pred_dict, loss_list, mode, opt, loc, ncalls, iters_done, ret>>

-----------------------------------------------------------------------------
(* First-order mode: train.  Line 178 reads the name train_dict, which is  *)
(* not a parameter: it resolves to a module-level global when one is bound *)
(* (the script binds it at line 288) and raises NameError otherwise.       *)
Train(epoch, global_bound) ==
  /\ Idle /\ runs < MaxRuns
  /\ mode' = "train"
  /\ ncalls' = 0
  /\ opt' = NoOpt
  /\ IF global_bound
     THEN /\ loc' = [unzip_train_dict("train_dict", TrainDictKeys) EXCEPT !.epoch = epoch]
          /\ stop' = "none"
          /\ pc' = "t_loop"
          /\ UNCHANGED runs
     ELSE /\ loc' = [NoLocals EXCEPT !.epoch = epoch]
          /\ Finish("NameError")
  /\ ParamsUnchanged /\ ModelRest
  /\ UNCHANGED <<loss_list, iters_done, ret>>

(* line 181 *)
Train_Loop ==
  /\ pc = "t_loop"
  /\ pc' = IF loc.i < loc.epoch THEN "t_zero" ELSE "t_final_forward"
  /\ ParamsUnchanged /\ ModelRest
  /\ UNCHANGED <<loss_list, mode, opt, loc, stop, runs, ncalls, iters_done, ret>>

(* line 182 *)
Train_ZeroGrad ==
  /\ pc = "t_zero"
  /\ SetParams(zero_grad(Params))
  /\ pc' = "t_forward"
  /\ ModelRest
  /\ UNCHANGED <<layers, loss_list, mode, opt, loc, stop, runs, ncalls, iters_done, ret>>

(* line 183 *)
Train_Forward ==
  /\ pc = "t_forward"
  /\ LET r == forward(loc.dataset, loc.x_keys, ExplicitKeys(TrainKeys))
     IN IF r.ok
        THEN /\ loc' = [loc EXCEPT !.pred = r.val]
             /\ pc' = "t_loss"
             /\ UNCHANGED <<stop, runs>>
        ELSE /\ Finish(r.err)
             /\ UNCHANGED loc
  /\ ParamsUnchanged /\ ModelRest
  /\ UNCHANGED <<loss_list, mode, opt, ncalls, iters_done, ret>>

(* line 184 *)
Train_Loss ==
  /\ pc = "t_loss"
  /\ LET r == loss_func(loc.pred, TrueDict(loc), NoWeights)
     IN IF r.ok
        THEN /\ loc' = [loc EXCEPT !.loss = r.val]
             /\ pc' = "t_callback"
             /\ UNCHANGED <<stop, runs>>
        ELSE /\ Finish(r.err)
             /\ UNCHANGED loc
  /\ ParamsUnchanged /\ ModelRest
  /\ UNCHANGED <<loss_list, mode, opt, ncalls, iters_done, ret>>

(* lines 186-188 *)
Train_Callback ==
  /\ pc = "t_callback"
  /\ loss_list' = callback(loc.loss)
  /\ pc' = "t_backward"
  /\ ParamsUnchanged /\ ModelRest
  /\ UNCHANGED <<mode, opt, loc, stop, runs, ncalls, iters_done, ret>>

(* line 190 *)
Train_Backward ==
  /\ pc = "t_backward"
  /\ SetParams(customized_backward(loc.loss, Params, NW))
  /\ pc' = "t_step"
  /\ ModelRest
  /\ UNCHANGED <<layers, loss_list, mode, opt, loc, stop, runs, ncalls, iters_done, ret>>

(* line 194: one optimizer update, then the next epoch *)
Train_Step ==
  /\ pc = "t_step"
  /\ SetParams(update(Params))
  /\ opt' = [opt EXCEPT !.steps = @ + 1]
  /\ loc' = [loc EXCEPT !.i = @ + 1]
  /\ iters_done' = iters_done + 1
  /\ pc' = "t_loop"
  /\ ModelRest
  /\ UNCHANGED <<layers, loss_list, mode, stop, runs, ncalls, ret>>

(* line 196 *)
Train_FinalForward ==
  /\ pc = "t_final_forward"
  /\ LET r == forward(loc.dataset, loc.x_keys, ExplicitKeys(TrainKeys))
     IN IF r.ok
        THEN /\ pred_dict' = r.val
             /\ pc' = "t_final_loss"
             /\ UNCHANGED <<stop, runs>>
        ELSE /\ Finish(r.err)
             /\ UNCHANGED pred_dict
  /\ ParamsUnchanged
  /\ UNCHANGED <<preds, loss, loss_list, mode, opt, loc, ncalls, iters_done, ret>>

(* line 197 *)
Train_FinalLoss ==
  /\ pc = "t_final_loss"
  /\ LET r == loss_func(pred_dict, TrueDict(loc), NoWeights)
     IN IF r.ok
        THEN loss' = r.val /\ Finish("epochs")
        ELSE UNCHANGED loss /\ Finish(r.err)
  /\ ParamsUnchanged
  /\ UNCHANGED <<preds, pred_dict, loss_list, mode, opt, loc, ncalls, iters_done, ret>>

-----------------------------------------------------------------------------
(* Direct calls of the router and of the loss assembler on the constructed *)
(* model, with the caller's own mappings.                                  *)
KeyArgs == {NoneArg} \cup {ExplicitKeys(S) : S \in SUBSET Keys}
WeightArgs == {NoWeights} \cup {[given |-> TRUE, map |-> [i \in S |-> 2]] : S \in SUBSET Roles}

ForwardCall(x_tensors, keys) ==
  /\ Idle /\ ret = NoRet
  /\ ret' = [NoRet EXCEPT !.op = "forward", !.supplied = x_tensors, !.keys = keys,
                          !.res = forward("call", x_tensors, keys)]
  /\ ParamsUnchanged /\ ModelRest
  /\ UNCHANGED <<loss_list, pc, mode, opt, loc, stop, runs, ncalls, iters_done>>

LossFuncCall(P, T, wts) ==
  /\ Idle /\ ret = NoRet
  /\ LET pred == [i \in P |-> dispatch("call", i)]
         truth == [i \in T |-> Target("call", i)]
     IN ret' = [NoRet EXCEPT !.op = "loss_func", !.supplied = P, !.truth = T, !.wts = wts,
                             !.res = loss_func(pred, truth, wts)]
  /\ ParamsUnchanged /\ ModelRest
  /\ UNCHANGED <<loss_list, pc, mode, opt, loc, stop, runs, ncalls, iters_done>>

(* the caller drops the returned value *)
Discard ==
  /\ Idle /\ ret # NoRet
  /\ ret' = NoRet
  /\ ParamsUnchanged /\ ModelRest
  /\ UNCHANGED <<loss_list, pc, mode, opt, loc, stop, runs, ncalls, iters_done>>

-----------------------------------------------------------------------------
(* max_eval is max_iter (line 27) or left to its default, max_iter*5//4 *)
(* (line 298)                                                          *)
OptimizerConfigs ==
  {c \in (1..MaxIter) \X (1..(2 * MaxIter)) :
     c[2] = c[1] \/ c[2] = (c[1] * 5) \div 4}

TrainStep ==
  \/ Closure_ZeroGrad \/ Closure_Forward \/ Closure_Loss \/ Closure_Callback
  \/ Closure_Backward \/ Closure_Return
  \/ LBFGS_FirstCheck \/ LBFGS_Iterate \/ LBFGS_Checks
  \/ LBFGS_FinalForward \/ LBFGS_FinalLoss
  \/ Train_Loop \/ Train_ZeroGrad \/ Train_Forward \/ Train_Loss \/ Train_Callback
  \/ Train_Backward \/ Train_Step \/ Train_FinalForward \/ Train_FinalLoss

Next ==
  \/ \E c \in OptimizerConfigs : TrainLBFGS(c[1], c[2])
  \/ \E epoch \in 0..MaxEpoch, global_bound \in BOOLEAN : Train(epoch, global_bound)
  \/ TrainStep

Spec == Init /\ [][Next]_vars

SpecLive == Spec /\ WF_vars(TrainStep)

NextCalls ==
  \/ /\ ret = NoRet
     /\ \E x_tensors \in SUBSET Keys, keys \in KeyArgs : ForwardCall(x_tensors, keys)
  \/ /\ ret = NoRet
     /\ \E P \in SUBSET Roles, T \in SUBSET Roles, wts \in WeightArgs : LossFuncCall(P, T, wts)
  \/ Discard

SpecCalls == Init /\ [][NextCalls]_vars

-----------------------------------------------------------------------------
(* The driver's state, read off the program position and the reason the    *)
(* optimizer stopped.                                                      *)
DriverState ==
  IF stop \in {"tolerance_grad", "tolerance_change"} THEN "CONVERGED"
  ELSE IF stop \in {"max_iter", "max_eval", "epochs"} THEN "ITERATION_LIMIT_REACHED"
  ELSE IF stop # "none" THEN "FAILED"
  ELSE IF Idle THEN "IDLE"
  ELSE "RUNNING"

IsLossCall == ret.op = "loss_func"
IsForwardCall == ret.op = "forward"
AllGrads(g) == \A vid \in 1..Len(Params) : Params[vid].grad = g
TrainForward == forward(loc.dataset, loc.x_keys, ExplicitKeys(TrainKeys))
FreshLoss == loss_func(TrainForward.val, TrueDict(loc), NoWeights)
IsPrefix(s, t) == Len(s) <= Len(t) /\ SubSeq(t, 1, Len(s)) = s

-----------------------------------------------------------------------------
C2_DefaultKeysReturnSuppliedRoles ==
  (IsForwardCall /\ ~ret.keys.given /\ ret.supplied # {} /\ ret.supplied \subseteq Roles) =>
     (ret.res.ok /\ DOMAIN ret.res.val = ret.supplied)

(* C3: a forward call with explicit roles (each with its point-set          *)
(* supplied) returns exactly the requested roles, u and diri from net_u,    *)
(* nuem from the first component of net_du, f from net_f, and changes       *)
(* neither the parameters, their gradient slots, nor the loss history.      *)
C3_ExplicitKeysDispatchAndFrame ==
  [][(/\ ret'.op = "forward" /\ ret' # ret
      /\ ret'.keys.given
      /\ ret'.keys.set \subseteq Roles
      /\ ret'.keys.set \subseteq ret'.supplied)
     => /\ ret'.res.ok
        /\ DOMAIN ret'.res.val = ret'.keys.set
        /\ \A i \in ret'.keys.set :
             ret'.res.val[i] =
               CASE i \in {"u", "diri"} -> net_u(<<"call", i>>)
                 [] i = "nuem" -> net_du(<<"call", i>>)[1]
                 [] i = "f" -> net_f(<<"call", i>>)
        /\ UNCHANGED <<weights, biases, loss_list>>]_vars

C3_Witness ==
  /\ IsForwardCall /\ ret.keys.given
  /\ ret.keys.set = Roles /\ ret.supplied = Roles
  /\ ret.res.ok
  /\ ret.res.val["nuem"].fn = "du_dx"

(* C9: every role of the prediction bundle is weighted: without a weights   *)
(* mapping each role's weight is 1, and a call whose weights mapping lacks  *)
(* a role of the prediction bundle fails.                                   *)
C9_EveryRoleWeighted ==
  IsLossCall =>
     /\ (~ret.wts.given /\ ret.res.ok) =>
           \A i \in ret.supplied : ret.res.val[i].w = DefaultWeight
     /\ (ret.wts.given /\ ~(ret.supplied \subseteq DOMAIN ret.wts.map)) => ~ret.res.ok
     /\ (ret.wts.given /\ ret.res.ok) =>
           \A i \in ret.supplied : ret.res.val[i].w = ret.wts.map[i]

C9_Witness ==
  /\ IsLossCall /\ ret.wts.given
  /\ ret.supplied = TrainKeys /\ ret.supplied \subseteq ret.truth
  /\ DOMAIN ret.wts.map = {"diri", "f"}
  /\ ~ret.res.ok

-----------------------------------------------------------------------------
MidIteration == pc \in {"c_backward", "c_return", "t_backward", "t_step"}

(* C4: the loss history is append-only (every step keeps the existing       *)
(* entries and adds at most one), and its length is the number of training  *)
(* iterations completed, one entry per closure invocation or epoch (the     *)
(* entry of the iteration in progress is logged before that iteration       *)
(* completes).                                                              *)
C4_HistoryAppendOnly ==
  /\ [][IsPrefix(loss_list, loss_list') /\ Len(loss_list') <= Len(loss_list) + 1]_vars
  /\ [](Len(loss_list) = iters_done + (IF MidIteration THEN 1 ELSE 0))

C4_Witness ==
  /\ Idle /\ runs = 1 /\ mode = "lbfgs"
  /\ Len(loss_list) = 4 /\ iters_done = 4
  /\ loss_list[1] # loss_list[4]

(* C5: inside the closure the gradients are zeroed first, then the forward  *)
(* pass over diri, nuem, f, then the loss, then the append to the history,  *)
(* then one differentiation against weights followed by biases whose i-th   *)
(* result lands in the i-th parameter's slot; when the closure returns,     *)
(* every slot holds the gradient of the returned loss at the current        *)
(* parameter values.                                                        *)
C5_ClosureOrderAndGradients ==
  /\ pc \in {"c_forward", "c_loss", "c_callback", "c_backward"} => AllGrads(ZeroGrad)
  /\ pc \in {"c_loss", "c_callback", "c_backward", "c_return"} =>
        /\ DOMAIN loc.pred = TrainKeys
        /\ loc.pred = TrainForward.val
  /\ pc \in {"c_callback", "c_backward", "c_return"} => loc.loss = FreshLoss.val
  /\ pc = "c_callback" => Len(loss_list) = iters_done
  /\ pc \in {"c_backward", "c_return"} =>
        /\ Len(loss_list) = iters_done + 1
        /\ loss_list[Len(loss_list)] = loc.loss
  /\ pc \in {"c_return", "o_first"} =>
        \A vid \in 1..Len(Params) :
           Params[vid].grad =
             [kind |-> "grad",
              wrt |-> IF vid <= Len(weights) THEN <<"W", vid>>
                      ELSE <<"b", vid - Len(weights)>>,
              loss |-> FreshLoss.val]

C5_Witness ==
  /\ pc = "c_return" /\ opt.phase = "loop" /\ opt.n_iter = 2
  /\ Len(layers) = 3
  /\ Params[4].grad.wrt = <<"b", 2>>

(* C6 (as stated): when a call train(epoch = n, ...) is over, exactly n      *)
(* optimizer steps have been applied.                                       *)
C6_TrainRunsEpochIterations ==
  (Idle /\ mode = "train") => opt.steps = loc.epoch

(* C7: a quasi-Newton run ends CONVERGED or ITERATION_LIMIT_REACHED, and    *)
(* one step call invokes the closure at most max_iter and at most max_eval  *)
(* times.                                                                   *)
C7_RunTerminatesWithinBudget ==
  /\ [](mode = "lbfgs" => (ncalls <= opt.max_iter /\ ncalls <= opt.max_eval))
  /\ [](mode = "lbfgs" => DriverState \in {"RUNNING", "CONVERGED", "ITERATION_LIMIT_REACHED"})
  /\ ((mode = "lbfgs" /\ DriverState = "RUNNING")
        ~> (Idle /\ mode = "lbfgs" /\ DriverState \in {"CONVERGED", "ITERATION_LIMIT_REACHED"}))

C7_Witness ==
  /\ Idle /\ mode = "lbfgs" /\ stop = "max_eval"
  /\ opt.max_iter = 4 /\ ncalls = 4

(* C8: once the optimizer's step has returned, the driver makes one forward *)
(* pass over diri, nuem, f and one loss computation at the final parameter  *)
(* values and stores them in pred_dict and loss; these two steps update no  *)
(* parameter and append nothing to the history.                             *)
C8_FinalPassStoresRestingState ==
  /\ [][pc = "final_forward" =>
          /\ pc' = "final_loss"
          /\ UNCHANGED <<weights, biases, loss_list>>]_vars
  /\ [][pc = "final_loss" =>
          /\ pc' = "idle"
          /\ UNCHANGED <<weights, biases, loss_list, pred_dict>>]_vars
  /\ []((Idle /\ mode = "lbfgs") =>
          /\ DOMAIN pred_dict = TrainKeys
          /\ pred_dict = TrainForward.val
          /\ loss = FreshLoss.val
          /\ preds = "None")

C8_Witness ==
  /\ Idle /\ mode = "lbfgs" /\ stop = "max_iter"
  /\ opt.n_iter = 4
  /\ pred_dict["f"].W[1] = 4
  /\ loc.pred["f"].W[1] = 3

(* C10: initialize_NN returns n-1 weights and n-1 biases for a layer list   *)
(* of length n >= 2, the l-th weight of shape (layers[l], layers[l+1]), the *)
(* l-th bias of shape (1, layers[l+1]) and zero; training never changes     *)
(* these counts and shapes.                                                 *)
C10_CountsAndShapes ==
  /\ (Idle /\ runs = 0) => \A lys \in LayerSeqs :
       LET r == initialize_NN(lys)
       IN /\ Len(r[1]) = Len(lys) - 1
          /\ Len(r[2]) = Len(lys) - 1
          /\ \A l \in 1..(Len(lys) - 1) :
               /\ r[1][l].shape = <<lys[l], lys[l + 1]>>
               /\ r[2][l].shape = <<1, lys[l + 1]>>
               /\ r[2][l].init = "zeros" /\ r[2][l].ver = 0
  /\ Len(weights) = Len(layers) - 1
  /\ Len(biases) = Len(layers) - 1
  /\ \A l \in 1..(Len(layers) - 1) :
       /\ weights[l].shape = <<layers[l], layers[l + 1]>>
       /\ biases[l].shape = <<1, layers[l + 1]>>

C10_Witness ==
  /\ Idle /\ runs = 1
  /\ Len(layers) = 3
  /\ weights[2].ver >= 3
  /\ biases[2].grad.kind = "grad"

====
